---- MODULE Spec2Model ----
(***************************************************************************)
(* A model of imagetools-rs: the chunk-level PNG reader and writer of      *)
(* src/src/png.rs (PNGFile::from_file, PNGFile::write, IHDRData::from_chunk*)
(* and PNGFile::get_last_modified) and of the crate root src/src/lib.rs.   *)
(* Files are sequences of bytes (0..255); every read is File::read into a  *)
(* zero-initialised buffer, every write appends the bytes to the output.   *)
(***************************************************************************)
EXTENDS Integers, Sequences, FiniteSets, TLC

VARIABLES
    input,          \* ghost: how the input file was assembled (never read by the program)
    file,           \* the bytes of the file being read
    pos,            \* the read cursor of the open file
    pc,             \* position of the program
    found_iend,     \* from_file: the loop flag
    ihdr_chunk,     \* from_file: Option<PNGChunk>, <<>> is None, <<c>> is Some(c)
    time_chunk,     \* from_file / PNGFile: Option<PNGChunk>
    chunks,         \* from_file / PNGFile: Vec<PNGChunk>
    result,         \* what from_file returned
    spin,           \* ghost: loop iterations started with the source already exhausted
    phase,          \* 1: loading the input file, 2: loading the file write produced
    doc0,           \* the document of phase 1, kept to compare with the reloaded one
    out,            \* the bytes write put in the destination file
    write_result,   \* what write returned
    ihdr_data,      \* outcome of IHDRData::from_chunk
    last_modified   \* outcome of PNGFile::get_last_modified

vars == <<input, file, pos, pc, found_iend, ihdr_chunk, time_chunk, chunks, result,
          spin, phase, doc0, out, write_result, ihdr_data, last_modified>>

(***************************************************************************)
(* Bounds of the model.                                                    *)
(***************************************************************************)
\* longest chunk sequence an input file is assembled from
MaxChunks == 3
\* longest payload of the chunks of an input file
MaxPayload == 2
\* loop iterations explored once the source is exhausted (the loop itself has no limit)
MaxSpin == 2
\* longest sequence of whole chunks in the files of the chunk-stream specification
MaxStream == 5
\* largest bit depth, colour type, compression or filter method, and interlace method
\* among the header payloads offered to from_chunk
MaxBitDepth == 17
MaxColorType == 7
MaxMethod == 1
MaxInterlace == 2

(***************************************************************************)
(* Bytes and the constants of the program.                                 *)
(***************************************************************************)
PNG_HEADER == <<137, 80, 78, 71, 13, 10, 26, 10>>

IHDR == <<73, 72, 68, 82>>
tIME == <<116, 73, 77, 69>>
IEND == <<73, 69, 78, 68>>
\* a tag the program gives no meaning to, and one that is not UTF-8
IDAT == <<73, 68, 65, 84>>
BadTag == <<73, 68, 65, 255>>

Min(a, b) == IF a < b THEN a ELSE b

\* File::read(&mut buf) with buf = [0; n]: fills what the file still has, the rest stays 0
ReadBytes(f, p, n) ==
    LET avail == Min(n, Len(f) - p)
    IN  [i \in 1..n |-> IF i <= avail THEN f[p + i] ELSE 0]

\* the cursor after File::read of n bytes
Advance(f, p, n) == p + Min(n, Len(f) - p)

from_be_bytes(b) == b[1] * 16777216 + b[2] * 65536 + b[3] * 256 + b[4]

\* mutant: the length is written least significant byte first
to_le_bytes(n) ==
    <<n % 256, (n \div 256) % 256, (n \div 65536) % 256, (n \div 16777216) % 256>>

to_be_bytes(n) ==
    <<(n \div 16777216) % 256, (n \div 65536) % 256, (n \div 256) % 256, n % 256>>

\* a UTF-8 continuation byte
IsCont(x) == x >= 128 /\ x <= 191

\* str::from_utf8(b).is_ok() from index i of the byte array b
RECURSIVE Utf8From(_, _)
Utf8From(b, i) ==
    IF i > Len(b) THEN TRUE
    ELSE LET x == b[i]
             has(k) == i + k <= Len(b)
         IN  IF x < 128 THEN Utf8From(b, i + 1)
             ELSE IF x >= 194 /\ x <= 223
                  THEN has(1) /\ IsCont(b[i + 1]) /\ Utf8From(b, i + 2)
             ELSE IF x = 224
                  THEN has(2) /\ b[i + 1] >= 160 /\ b[i + 1] <= 191 /\ IsCont(b[i + 2])
                       /\ Utf8From(b, i + 3)
             ELSE IF x = 237
                  THEN has(2) /\ b[i + 1] >= 128 /\ b[i + 1] <= 159 /\ IsCont(b[i + 2])
                       /\ Utf8From(b, i + 3)
             ELSE IF x >= 225 /\ x <= 239
                  THEN has(2) /\ IsCont(b[i + 1]) /\ IsCont(b[i + 2]) /\ Utf8From(b, i + 3)
             ELSE IF x = 240
                  THEN has(3) /\ b[i + 1] >= 144 /\ b[i + 1] <= 191 /\ IsCont(b[i + 2])
                       /\ IsCont(b[i + 3]) /\ Utf8From(b, i + 4)
             ELSE IF x >= 241 /\ x <= 243
                  THEN has(3) /\ IsCont(b[i + 1]) /\ IsCont(b[i + 2]) /\ IsCont(b[i + 3])
                       /\ Utf8From(b, i + 4)
             ELSE IF x = 244
                  THEN has(3) /\ b[i + 1] >= 128 /\ b[i + 1] <= 143 /\ IsCont(b[i + 2])
                       /\ IsCont(b[i + 3]) /\ Utf8From(b, i + 4)
             ELSE FALSE

from_utf8_ok(b) == Utf8From(b, 1)

\* mutant: only the first four bytes of the signature are compared
HeaderMatches_FirstFour(header) == \A i \in 1..4 : header[i] = PNG_HEADER[i]

\* header.iter().zip(PNG_HEADER.iter()).all(|(a, b)| a == b)
HeaderMatches(header) == \A i \in 1..8 : header[i] = PNG_HEADER[i]

\* mutant: a special chunk already captured is kept, a later one is dropped
Capture_FirstWins(captured, chunk) == IF captured = <<>> THEN <<chunk>> ELSE captured

\* ihdr_chunk = Some(chunk) / time_chunk = Some(chunk): whatever was captured is replaced
Capture(captured, chunk) == <<chunk>>

\* struct PNGChunk
PNGChunk(length, chunk_type, data, crc) ==
    [length |-> length, chunk_type |-> chunk_type, data |-> data, crc |-> crc]

\* mutant: data holds only the bytes the source still had (no buffer of `length` bytes)
ReadChunkAt_NoBuffer(f, p) ==
    LET length == from_be_bytes(ReadBytes(f, p, 4))
        p1 == Advance(f, p, 4)
        chunk_type == ReadBytes(f, p1, 4)
        p2 == Advance(f, p1, 4)
        p3 == Advance(f, p2, length)
        data == SubSeq(f, p2 + 1, p3)
        crc == ReadBytes(f, p3, 4)
    IN  PNGChunk(length, chunk_type, data, crc)

\* one pass of the loop body's four reads: the chunk built from the bytes at cursor p
ReadChunkAt(f, p) ==
    LET length == from_be_bytes(ReadBytes(f, p, 4))
        p1 == Advance(f, p, 4)
        chunk_type == ReadBytes(f, p1, 4)
        p2 == Advance(f, p1, 4)
        data == ReadBytes(f, p2, length)
        p3 == Advance(f, p2, length)
        crc == ReadBytes(f, p3, 4)
    IN  PNGChunk(length, chunk_type, data, crc)

\* the cursor after those four reads
CursorAfterChunk(f, p) ==
    LET length == from_be_bytes(ReadBytes(f, p, 4))
    IN  Advance(f, Advance(f, Advance(f, Advance(f, p, 4), 4), length), 4)

\* PNGChunk::write_to_file: the bytes one chunk puts in the file
write_to_file(chunk) ==
    to_be_bytes(chunk.length) \o chunk.chunk_type \o chunk.data \o chunk.crc

RECURSIVE WriteAll(_)
\* for chunk in &self.chunks { chunk.write_to_file(..) }
WriteAll(cs) == IF cs = <<>> THEN <<>> ELSE write_to_file(Head(cs)) \o WriteAll(Tail(cs))

\* mutant: the time chunk is not written
WriteBytes_NoTime(ihdr, time, cs) ==
    PNG_HEADER \o write_to_file(ihdr) \o WriteAll(cs)

\* PNGFile::write of png.rs: everything a successful write puts in the file
WriteBytes(ihdr, time, cs) ==
    PNG_HEADER \o write_to_file(ihdr) \o WriteAll(time) \o WriteAll(cs)

(***************************************************************************)
(* Input files: a signature (or a damaged one), a sequence of chunks, and  *)
(* a cut of the last chunk's final bytes.                                  *)
(***************************************************************************)
Tags == {IHDR, tIME, IEND, IDAT, BadTag}

\* the payload and checksum the input files carry (no byte of them is 0); the
\* checksum of the k-th chunk of a file ends with k, so that equal tags at different
\* places are different chunks
PayloadOf(n) == [i \in 1..n |-> 200 + i]
CrcOf(tag, k) == <<tag[1], tag[4], 170, k>>

\* the bytes of the chunks tags[k], tags[k + 1], ...
RECURSIVE AssembleFrom(_, _, _)
AssembleFrom(tags, n, k) ==
    IF k > Len(tags) THEN <<>>
    ELSE <<0, 0, 0, n>> \o tags[k] \o PayloadOf(n) \o CrcOf(tags[k], k)
         \o AssembleFrom(tags, n, k + 1)

Assemble(tags, n) == AssembleFrom(tags, n, 1)

Truncate(s, cut) == SubSeq(s, 1, Len(s) - cut)

\* signatures with one byte changed
DamagedHeaders ==
    {[PNG_HEADER EXCEPT ![i] = (PNG_HEADER[i] + 1) % 256] : i \in 1..8}

\* the inputs: [sig, tags, plen, cut]
Inputs(in) ==
    \* a correct signature, then chunks, the last one cut short by `cut` bytes
    \/ \E n \in 0..MaxChunks : \E t \in [1..n -> Tags] :
         \E p \in 0..MaxPayload : \E c \in 0..(11 + p) :
            /\ n = 0 => c = 0
            /\ in = [sig |-> PNG_HEADER, tags |-> t, plen |-> p, cut |-> c]
    \* a signature with a wrong byte, whatever follows
    \/ \E h \in DamagedHeaders : \E n \in 0..MaxChunks : \E t \in [1..n -> Tags] :
         \E p \in 0..MaxPayload :
            in = [sig |-> h, tags |-> t, plen |-> p, cut |-> 0]
    \* a source shorter than the signature
    \/ \E k \in 0..7 :
            in = [sig |-> SubSeq(PNG_HEADER, 1, k), tags |-> <<>>, plen |-> 0, cut |-> 0]

FileOf(in) == Truncate(in.sig \o Assemble(in.tags, in.plen), in.cut)

NotCalled == [called |-> FALSE, arg |-> <<>>, panic |-> "", value |-> <<>>]
Panicked(a, msg) == [called |-> TRUE, arg |-> a, panic |-> msg, value |-> <<>>]
Returned(a, v) == [called |-> TRUE, arg |-> a, panic |-> "", value |-> v]

NoInput == [sig |-> <<>>, tags |-> <<>>, plen |-> 0, cut |-> 0]

(***************************************************************************)
(* PNGFile::from_file of png.rs.                                           *)
(***************************************************************************)
Init ==
    /\ Inputs(input)
    /\ file = FileOf(input)
    /\ pos = 0
    /\ pc = "from_file"
    /\ found_iend = FALSE
    /\ ihdr_chunk = <<>>
    /\ time_chunk = <<>>
    /\ chunks = <<>>
    /\ result = "none"
    /\ spin = 0
    /\ phase = 1
    /\ doc0 = <<>>
    /\ out = <<>>
    /\ write_result = "none"
    /\ ihdr_data = NotCalled
    /\ last_modified = NotCalled

\* File::open(filename)? or file.read(&mut header)? fails
FromFileIoError ==
    /\ pc = "from_file"
    /\ pc' = "returned"
    /\ result' = "io::Error"
    /\ UNCHANGED <<input, file, pos, found_iend, ihdr_chunk, time_chunk, chunks,
                   spin, phase, doc0, out, write_result, ihdr_data, last_modified>>

\* the signature is read and compared
FromFileHeader ==
    /\ pc = "from_file"
    /\ pos' = Advance(file, pos, 8)
    /\ IF HeaderMatches(ReadBytes(file, pos, 8))
       THEN pc' = "loop" /\ result' = result
       ELSE pc' = "returned" /\ result' = "InvalidPNGFormat"
    /\ UNCHANGED <<input, file, found_iend, ihdr_chunk, time_chunk, chunks,
                   spin, phase, doc0, out, write_result, ihdr_data, last_modified>>

\* one iteration of while !found_iend
FromFileLoop ==
    /\ pc = "loop"
    /\ ~found_iend
    /\ pos < Len(file) \/ spin < MaxSpin
    /\ LET chunk == ReadChunkAt(file, pos)
       IN  /\ pos' = CursorAfterChunk(file, pos)
           /\ spin' = IF pos < Len(file) THEN spin ELSE spin + 1
           /\ IF ~from_utf8_ok(chunk.chunk_type)
              THEN /\ pc' = "panic"
                   /\ UNCHANGED <<ihdr_chunk, time_chunk, chunks, found_iend>>
              ELSE IF chunk.chunk_type = IHDR
              THEN /\ ihdr_chunk' = Capture(ihdr_chunk, chunk)
                   /\ UNCHANGED <<pc, time_chunk, chunks, found_iend>>
              ELSE IF chunk.chunk_type = tIME
              THEN /\ time_chunk' = Capture(time_chunk, chunk)
                   /\ UNCHANGED <<pc, ihdr_chunk, chunks, found_iend>>
              ELSE /\ found_iend' = (chunk.chunk_type = IEND)
                   /\ chunks' = Append(chunks, chunk)
                   /\ UNCHANGED <<pc, ihdr_chunk, time_chunk>>
    /\ UNCHANGED <<input, file, result, phase, doc0, out, write_result,
                   ihdr_data, last_modified>>

\* after the loop: Ok(PNGFile) if an IHDR chunk was seen, Err(InvalidPNGFormat) otherwise
FromFileReturn ==
    /\ pc = "loop"
    /\ found_iend
    /\ pc' = "returned"
    /\ result' = IF ihdr_chunk # <<>> THEN "Ok" ELSE "InvalidPNGFormat"
    /\ UNCHANGED <<input, file, pos, found_iend, ihdr_chunk, time_chunk, chunks,
                   spin, phase, doc0, out, write_result, ihdr_data, last_modified>>

\* the bytes a sequence of successful write calls leaves in the file
RECURSIVE Concat(_)
Concat(ss) == IF ss = <<>> THEN <<>> ELSE Head(ss) \o Concat(Tail(ss))

\* the four write calls of PNGChunk::write_to_file
ChunkCalls(chunk) == <<to_be_bytes(chunk.length), chunk.chunk_type, chunk.data, chunk.crc>>

RECURSIVE AllChunkCalls(_)
AllChunkCalls(cs) == IF cs = <<>> THEN <<>> ELSE ChunkCalls(Head(cs)) \o AllChunkCalls(Tail(cs))

\* the write calls of PNGFile::write, in order
WriteCalls(ihdr, time, cs) ==
    <<PNG_HEADER>> \o ChunkCalls(ihdr) \o AllChunkCalls(time) \o AllChunkCalls(cs)

(***************************************************************************)
(* PNGFile::write of png.rs, on the document from_file returned.           *)
(***************************************************************************)
\* File::create(filename).unwrap() on a destination that cannot be created
WriteCreateFails ==
    /\ pc = "returned" /\ result = "Ok" /\ phase = 1
    /\ pc' = "panic"
    /\ UNCHANGED <<input, file, pos, found_iend, ihdr_chunk, time_chunk, chunks, result,
                   spin, phase, doc0, out, write_result, ihdr_data, last_modified>>

\* write call k + 1 is the first to fail: the ? returns the error, what the first k
\* calls wrote stays in the file
WriteIoError ==
    /\ pc = "returned" /\ result = "Ok" /\ phase = 1
    /\ \E k \in 0..(Len(WriteCalls(ihdr_chunk[1], time_chunk, chunks)) - 1) :
          out' = Concat(SubSeq(WriteCalls(ihdr_chunk[1], time_chunk, chunks), 1, k))
    /\ pc' = "written"
    /\ write_result' = "io::Error"
    /\ UNCHANGED <<input, file, pos, found_iend, ihdr_chunk, time_chunk, chunks, result,
                   spin, phase, doc0, ihdr_data, last_modified>>

\* every write call succeeds
Write ==
    /\ pc = "returned" /\ result = "Ok" /\ phase = 1
    /\ out' = WriteBytes(ihdr_chunk[1], time_chunk, chunks)
    /\ pc' = "written"
    /\ write_result' = "Ok"
    /\ UNCHANGED <<input, file, pos, found_iend, ihdr_chunk, time_chunk, chunks, result,
                   spin, phase, doc0, ihdr_data, last_modified>>

\* the document of a PNGFile value
Document(ihdr, time, cs) == [ihdr_chunk |-> ihdr, time_chunk |-> time, chunks |-> cs]

\* from_file is called on the file write produced
Reload ==
    /\ pc = "written" /\ write_result = "Ok" /\ phase = 1
    /\ doc0' = <<Document(ihdr_chunk[1], time_chunk, chunks)>>
    /\ file' = out
    /\ pos' = 0
    /\ pc' = "from_file"
    /\ phase' = 2
    /\ found_iend' = FALSE
    /\ ihdr_chunk' = <<>>
    /\ time_chunk' = <<>>
    /\ chunks' = <<>>
    /\ result' = "none"
    /\ spin' = 0
    /\ UNCHANGED <<input, out, write_result, ihdr_data, last_modified>>

Next ==
    \/ FromFileIoError
    \/ FromFileHeader
    \/ FromFileLoop
    \/ FromFileReturn
    \/ WriteCreateFails
    \/ WriteIoError
    \/ Write
    \/ Reload

Spec == Init /\ [][Next]_vars

(***************************************************************************)
(* from_file alone, on correctly signed files of up to MaxStream whole     *)
(* chunks: room for repeated IHDR and tIME chunks and for chunks after     *)
(* IEND.                                                                   *)
(***************************************************************************)
InitStream ==
    /\ \E n \in 0..MaxStream : \E t \in [1..n -> Tags] : \E p \in 0..MaxPayload :
          input = [sig |-> PNG_HEADER, tags |-> t, plen |-> p, cut |-> 0]
    /\ file = FileOf(input)
    /\ pos = 0
    /\ pc = "from_file"
    /\ found_iend = FALSE
    /\ ihdr_chunk = <<>>
    /\ time_chunk = <<>>
    /\ chunks = <<>>
    /\ result = "none"
    /\ spin = 0
    /\ phase = 1
    /\ doc0 = <<>>
    /\ out = <<>>
    /\ write_result = "none"
    /\ ihdr_data = NotCalled
    /\ last_modified = NotCalled

NextStream ==
    \/ FromFileIoError
    \/ FromFileHeader
    \/ FromFileLoop
    \/ FromFileReturn

SpecStream == InitStream /\ [][NextStream]_vars

(***************************************************************************)
(* IHDRData::from_chunk and PNGFile::get_last_modified of png.rs.          *)
(* An outcome records whether the call was made, the chunk it was given,   *)
(* the panic message if it panicked, and the value it returned (an Option  *)
(* for get_last_modified: <<>> is None).                                   *)
(***************************************************************************)
\* mutant: the palette rule looks for a bit depth above 16
PaletteDepthInvalid_Above(color_type, bit_depth) == color_type = 3 /\ bit_depth > 16

\* else if color_type == 3 && bit_depth == 16
PaletteDepthInvalid(color_type, bit_depth) == color_type = 3 /\ bit_depth = 16

\* (color_type == 2 || color_type == 4 || color_type == 6) && (bit_depth != 8 && bit_depth != 16)
ColorDepthInvalid(color_type, bit_depth) ==
    (color_type = 2 \/ color_type = 4 \/ color_type = 6)
        /\ (bit_depth # 8 /\ bit_depth # 16)

from_chunk(chunk) ==
    LET data == chunk.data
        width == from_be_bytes(SubSeq(data, 1, 4))
        height == from_be_bytes(SubSeq(data, 5, 8))
        bit_depth == data[9]
        color_type == data[10]
        compression_method == data[11]
        filter_method == data[12]
        interlace_method == data[13]
    IN  IF ~from_utf8_ok(chunk.chunk_type)
        THEN Panicked(<<chunk>>, "unwrap on Utf8Error")
        ELSE IF chunk.chunk_type # IHDR
        THEN Panicked(<<chunk>>, "Not an IHDR chunk!")
        ELSE IF Len(data) < 8
        THEN Panicked(<<chunk>>, "range end index out of range for slice")
        ELSE IF Len(data) < 13
        THEN Panicked(<<chunk>>, "index out of bounds")
        ELSE IF width = 0 \/ height = 0
        THEN Panicked(<<chunk>>, "Width and height must be non-zero numbers.")
        ELSE IF bit_depth # 1 /\ bit_depth # 2 /\ bit_depth # 4 /\ bit_depth # 8
                /\ bit_depth # 16
        THEN Panicked(<<chunk>>,
                 "Invalid bit depth specified. Valid values are 1, 2, 4, 8, and 16.")
        ELSE IF color_type # 0 /\ color_type # 2 /\ color_type # 3 /\ color_type # 4
                /\ color_type # 6
        THEN Panicked(<<chunk>>,
                 "Invalid color type specified. Valid values are 0, 2, 3, 4, and 6.")
        ELSE IF ColorDepthInvalid(color_type, bit_depth)
        THEN Panicked(<<chunk>>,
                 "Invalid bit depth specified for color type. Valid values are 8 and 16.")
        ELSE IF PaletteDepthInvalid(color_type, bit_depth)
        THEN Panicked(<<chunk>>,
                 "Invalid bit depth specified for color type. Valid values are 1, 2, 4, and 8.")
        ELSE IF compression_method # 0
        THEN Panicked(<<chunk>>,
                 "Unsupported compression method specified. The only valid value is 0.")
        ELSE IF filter_method # 0
        THEN Panicked(<<chunk>>,
                 "Unsupported filter method specified. The only valid value is 0.")
        ELSE IF interlace_method > 1
        THEN Panicked(<<chunk>>,
                 "Unsupported interlace method specified. Valid values are 0 and 1.")
        ELSE Returned(<<chunk>>,
                 <<[width |-> width, height |-> height, bit_depth |-> bit_depth,
                    color_type |-> color_type,
                    compression_method |-> compression_method,
                    filter_method |-> filter_method,
                    interlace_method |-> interlace_method]>>)

\* mutant: the year is read least significant byte first
u16_from_le_bytes(b) == b[2] * 256 + b[1]

\* u16::from_be_bytes
u16_from_be_bytes(b) == b[1] * 256 + b[2]

get_last_modified(time) ==
    IF time = <<>> THEN Returned(time, <<>>)
    ELSE LET data == time[1].data
         IN  IF Len(data) < 2
             THEN Panicked(time, "range end index out of range for slice")
             ELSE IF Len(data) < 7
             THEN Panicked(time, "index out of bounds")
             ELSE Returned(time,
                      <<[year |-> u16_from_be_bytes(SubSeq(data, 1, 2)),
                         month |-> data[3], day |-> data[4], hour |-> data[5],
                         minute |-> data[6], second |-> data[7]]>>)

\* a chunk as from_file builds it from a file that holds all its bytes
ChunkOf(tag, data) == PNGChunk(Len(data), tag, data, CrcOf(tag, 1))

\* header payloads: 13 bytes, and the same cut short or one byte longer
WidthBytes == {<<0, 0, 0, 0>>, <<0, 0, 0, 10>>, <<1, 0, 0, 0>>}

HeaderPayload(w, h, bd, ct, cm, fm, im) == w \o h \o <<bd, ct, cm, fm, im>>

OddLengths == {0, 3, 7, 12, 14}

\* timestamp payloads: 7 bytes, and the same cut short or one byte longer
YearBytes == {<<0, 0>>, <<7, 229>>, <<229, 7>>, <<255, 255>>}
MonthBytes == {0, 12, 13, 255}
DayBytes == {0, 31, 255}
HourBytes == {0, 23, 24}
MinuteBytes == {0, 59, 255}
SecondBytes == {0, 59, 60}

Resize(s, n) == [i \in 1..n |-> IF i <= Len(s) THEN s[i] ELSE 9]

\* the documents offered to the two decoders
DecodeDocs(ihdr, time) ==
    \/ /\ time = <<>>
       /\ \E w \in WidthBytes, h \in WidthBytes, bd \in 0..MaxBitDepth,
             ct \in 0..MaxColorType, cm \in 0..MaxMethod, fm \in 0..MaxMethod,
             im \in 0..MaxInterlace :
             ihdr = <<ChunkOf(IHDR, HeaderPayload(w, h, bd, ct, cm, fm, im))>>
    \/ /\ time = <<>>
       /\ \E n \in OddLengths :
             ihdr = <<ChunkOf(IHDR,
                        Resize(HeaderPayload(<<0, 0, 0, 10>>, <<0, 0, 0, 10>>, 8, 0, 0, 0, 0), n))>>
    \/ /\ ihdr = <<ChunkOf(IHDR, HeaderPayload(<<0, 0, 0, 10>>, <<0, 0, 0, 10>>, 8, 0, 0, 0, 0))>>
       /\ \E y \in YearBytes, mo \in MonthBytes, d \in DayBytes, h \in HourBytes,
             mi \in MinuteBytes, se \in SecondBytes :
             time = <<ChunkOf(tIME, y \o <<mo, d, h, mi, se>>)>>
    \/ /\ ihdr = <<ChunkOf(IHDR, HeaderPayload(<<0, 0, 0, 10>>, <<0, 0, 0, 10>>, 8, 0, 0, 0, 0))>>
       /\ \E n \in {0, 1, 6, 8} :
             time = <<ChunkOf(tIME, Resize(<<7, 229, 12, 31, 23, 59, 59>>, n))>>

\* a document from_file has returned, read from the file that holds its chunks
InitDecode ==
    /\ DecodeDocs(ihdr_chunk, time_chunk)
    /\ chunks = <<ChunkOf(IEND, <<>>)>>
    /\ input = NoInput
    /\ file = WriteBytes(ihdr_chunk[1], time_chunk, chunks)
    /\ pos = Len(file)
    /\ pc = "returned"
    /\ found_iend = TRUE
    /\ result = "Ok"
    /\ spin = 0
    /\ phase = 1
    /\ doc0 = <<>>
    /\ out = <<>>
    /\ write_result = "none"
    /\ ihdr_data = NotCalled
    /\ last_modified = NotCalled

\* IHDRData::from_chunk(png_file.get_ihdr_chunk()), or on a chunk of get_chunks()
FromChunk ==
    /\ pc = "returned" /\ result = "Ok"
    /\ ~ihdr_data.called
    /\ \E c \in {ihdr_chunk[1]} \cup {chunks[i] : i \in 1..Len(chunks)} :
          ihdr_data' = from_chunk(c)
    /\ pc' = IF ihdr_data'.panic # "" THEN "panic" ELSE pc
    /\ UNCHANGED <<input, file, pos, found_iend, ihdr_chunk, time_chunk, chunks, result,
                   spin, phase, doc0, out, write_result, last_modified>>

\* png_file.get_last_modified()
GetLastModified ==
    /\ pc = "returned" /\ result = "Ok"
    /\ ~last_modified.called
    /\ last_modified' = get_last_modified(time_chunk)
    /\ pc' = IF last_modified'.panic # "" THEN "panic" ELSE pc
    /\ UNCHANGED <<input, file, pos, found_iend, ihdr_chunk, time_chunk, chunks, result,
                   spin, phase, doc0, out, write_result, ihdr_data>>

NextDecode ==
    \/ FromChunk
    \/ GetLastModified

SpecDecode == InitDecode /\ [][NextDecode]_vars

(***************************************************************************)
(* The PNGFile of the crate root, src/src/lib.rs: it has no time chunk     *)
(* (time_chunk stays None), from_file hands the chunk loop to              *)
(* get_chunks_from_file, and write has its own loop.                       *)
(***************************************************************************)
\* File::open(filename)? or png_file.read(&mut header)? fails
lib_FromFileIoError ==
    /\ pc = "from_file"
    /\ pc' = "returned"
    /\ result' = "io::Error"
    /\ UNCHANGED <<input, file, pos, found_iend, ihdr_chunk, time_chunk, chunks,
                   spin, phase, doc0, out, write_result, ihdr_data, last_modified>>

\* the signature is read and compared
lib_FromFileHeader ==
    /\ pc = "from_file"
    /\ pos' = Advance(file, pos, 8)
    /\ IF HeaderMatches(ReadBytes(file, pos, 8))
       THEN pc' = "loop" /\ result' = result
       ELSE pc' = "returned" /\ result' = "InvalidPNGFormat"
    /\ UNCHANGED <<input, file, found_iend, ihdr_chunk, time_chunk, chunks,
                   spin, phase, doc0, out, write_result, ihdr_data, last_modified>>

\* get_chunks_from_file: one iteration of while !found_iend
lib_GetChunksLoop ==
    /\ pc = "loop"
    /\ ~found_iend
    /\ pos < Len(file) \/ spin < MaxSpin
    /\ LET chunk == ReadChunkAt(file, pos)
       IN  /\ pos' = CursorAfterChunk(file, pos)
           /\ spin' = IF pos < Len(file) THEN spin ELSE spin + 1
           /\ IF ~from_utf8_ok(chunk.chunk_type)
              THEN /\ pc' = "panic"
                   /\ UNCHANGED <<ihdr_chunk, chunks, found_iend>>
              ELSE IF chunk.chunk_type = IHDR
              THEN /\ ihdr_chunk' = Capture(ihdr_chunk, chunk)
                   /\ UNCHANGED <<pc, chunks, found_iend>>
              ELSE /\ found_iend' = (chunk.chunk_type = IEND)
                   /\ chunks' = Append(chunks, chunk)
                   /\ UNCHANGED <<pc, ihdr_chunk>>
    /\ UNCHANGED <<input, file, time_chunk, result, phase, doc0, out, write_result,
                   ihdr_data, last_modified>>

\* get_chunks_from_file after the loop: panic!("No IHDR Chunk found!") without an IHDR
\* chunk, otherwise from_file returns Ok(PNGFile { ihdr_chunk, chunks })
lib_GetChunksReturn ==
    /\ pc = "loop"
    /\ found_iend
    /\ IF ihdr_chunk # <<>>
       THEN pc' = "returned" /\ result' = "Ok"
       ELSE pc' = "panic" /\ result' = result
    /\ UNCHANGED <<input, file, pos, found_iend, ihdr_chunk, time_chunk, chunks,
                   spin, phase, doc0, out, write_result, ihdr_data, last_modified>>

\* the write calls of lib.rs's write: the signature, then the chunks of self.chunks
lib_WriteCalls(cs) == <<PNG_HEADER>> \o AllChunkCalls(cs)

\* File::create(filename).unwrap() fails, or writing the signature does (.expect)
lib_WriteCreateFails ==
    /\ pc = "returned" /\ result = "Ok" /\ phase = 1
    /\ pc' = "panic"
    /\ UNCHANGED <<input, file, pos, found_iend, ihdr_chunk, time_chunk, chunks, result,
                   spin, phase, doc0, out, write_result, ihdr_data, last_modified>>

\* a write call of the chunk loop fails: the ? returns the error
lib_WriteIoError ==
    /\ pc = "returned" /\ result = "Ok" /\ phase = 1
    /\ \E k \in 1..(Len(lib_WriteCalls(chunks)) - 1) :
          out' = Concat(SubSeq(lib_WriteCalls(chunks), 1, k))
    /\ pc' = "written"
    /\ write_result' = "io::Error"
    /\ UNCHANGED <<input, file, pos, found_iend, ihdr_chunk, time_chunk, chunks, result,
                   spin, phase, doc0, ihdr_data, last_modified>>

\* every write call succeeds
lib_Write ==
    /\ pc = "returned" /\ result = "Ok" /\ phase = 1
    /\ out' = Concat(lib_WriteCalls(chunks))
    /\ pc' = "written"
    /\ write_result' = "Ok"
    /\ UNCHANGED <<input, file, pos, found_iend, ihdr_chunk, time_chunk, chunks, result,
                   spin, phase, doc0, ihdr_data, last_modified>>

\* from_file is called on the file write produced
lib_Reload ==
    /\ pc = "written" /\ write_result = "Ok" /\ phase = 1
    /\ doc0' = <<Document(ihdr_chunk[1], time_chunk, chunks)>>
    /\ file' = out
    /\ pos' = 0
    /\ pc' = "from_file"
    /\ phase' = 2
    /\ found_iend' = FALSE
    /\ ihdr_chunk' = <<>>
    /\ chunks' = <<>>
    /\ result' = "none"
    /\ spin' = 0
    /\ UNCHANGED <<input, time_chunk, out, write_result, ihdr_data, last_modified>>

NextLib ==
    \/ lib_FromFileIoError
    \/ lib_FromFileHeader
    \/ lib_GetChunksLoop
    \/ lib_GetChunksReturn
    \/ lib_WriteCreateFails
    \/ lib_WriteIoError
    \/ lib_Write
    \/ lib_Reload

SpecLib == Init /\ [][NextLib]_vars

(***************************************************************************)
(* Properties of png.rs, checked under Spec.                               *)
(***************************************************************************)
\* the chunks a returned document holds, header first
Held == ihdr_chunk \o time_chunk \o chunks

\* the first 8 bytes of f are not the PNG signature (f may be shorter than 8 bytes)
BadSignature(f) == Len(f) < 8 \/ SubSeq(f, 1, 8) # <<137, 80, 78, 71, 13, 10, 26, 10>>

HasTag(tags, t) == \E i \in 1..Len(tags) : tags[i] = t

\* C1: round trip. Once write has succeeded on a loaded document, from_file on the
\* written file neither panics nor runs past the end of the file, always has a chunk
\* left to read while it loops, and (unless opening the file fails) returns Ok with
\* the same IHDR chunk, the same optional tIME chunk and the same chunk list.
C1_RoundTrip ==
    phase = 2 =>
        /\ pc # "panic"
        /\ spin = 0
        /\ (pc = "loop" /\ ~found_iend) => pos < Len(file)
        /\ (pc = "returned" /\ result # "io::Error") =>
              /\ result = "Ok"
              /\ Document(ihdr_chunk[1], time_chunk, chunks) = doc0[1]

C1_Witness ==
    /\ phase = 2 /\ pc = "returned" /\ result = "Ok"
    /\ time_chunk # <<>>
    /\ doc0[1].time_chunk = time_chunk
    /\ Len(chunks) >= 1

\* C2: a file whose first 8 bytes are not the signature (or that is shorter than 8
\* bytes) makes from_file return Err(InvalidPNGFormat) straight after the signature
\* read: no chunk is read or held, whatever follows.
C2_InvalidSignature ==
    (BadSignature(file) /\ pc # "from_file" /\ result # "io::Error") =>
        /\ pc = "returned"
        /\ result = "InvalidPNGFormat"
        /\ Held = <<>>
        /\ pos <= 8
        /\ spin = 0

C2_Witness ==
    /\ BadSignature(file) /\ Len(file) > 8
    /\ HasTag(input.tags, IHDR) /\ HasTag(input.tags, IEND)
    /\ pc = "returned" /\ result = "InvalidPNGFormat"

\* the chunks of the input up to and including the first IEND hold no IHDR
NoIhdrBeforeIend(tags) ==
    \E k \in 1..Len(tags) :
        /\ tags[k] = IEND
        /\ \A j \in 1..(k - 1) : tags[j] # IEND
        /\ \A j \in 1..k : tags[j] # IHDR

\* C3: on a correctly signed file of whole chunks (all with text tags) that has no
\* chunk at all, or no IHDR up to its first IEND, from_file ends with
\* Err(InvalidPNGFormat) and never reads at the end of the file.
C3_MissingHeader ==
    (/\ phase = 1
     /\ input.sig = PNG_HEADER /\ input.cut = 0 /\ ~HasTag(input.tags, BadTag)
     /\ input.tags = <<>> \/ NoIhdrBeforeIend(input.tags)
     /\ result # "io::Error"
     /\ pc \in {"returned", "panic"} \/ spin > 0)
    => (pc = "returned" /\ result = "InvalidPNGFormat" /\ spin = 0)

\* a chunk whose payload and checksum are bytes of the input file
Genuine(c) ==
    /\ c.data = PayloadOf(input.plen)
    /\ \E k \in 1..Len(input.tags) : c.crc = CrcOf(c.chunk_type, k)

\* the last chunk of the input lost its checksum and at least one payload byte, and no
\* earlier chunk is IEND
TruncatedMidPayload ==
    /\ input.sig = PNG_HEADER /\ ~HasTag(input.tags, BadTag)
    /\ input.plen >= 1 /\ input.cut >= 5 /\ input.cut <= 4 + input.plen
    /\ \A j \in 1..(Len(input.tags) - 1) : input.tags[j] # IEND

\* C4: on a file truncated in the middle of a payload from_file returns no document,
\* does not panic, and holds no chunk made of bytes the file does not have.
C4_Truncated ==
    (phase = 1 /\ TruncatedMidPayload) =>
        /\ result # "Ok"
        /\ pc # "panic"
        /\ \A i \in 1..Len(Held) : Genuine(Held[i])

\* C7: the document from_file returns: an IHDR chunk as header, a tIME chunk (if any)
\* as time chunk, a non-empty chunk list without IHDR or tIME whose only IEND is its
\* last element, and every chunk's length equal to the size of its data.
C7_DocumentInvariant ==
    result = "Ok" =>
        /\ Len(ihdr_chunk) = 1 /\ ihdr_chunk[1].chunk_type = IHDR
        /\ Len(time_chunk) <= 1
        /\ time_chunk # <<>> => time_chunk[1].chunk_type = tIME
        /\ chunks # <<>>
        /\ \A i \in 1..Len(chunks) :
              /\ chunks[i].chunk_type # IHDR
              /\ chunks[i].chunk_type # tIME
              /\ (chunks[i].chunk_type = IEND) <=> (i = Len(chunks))
        /\ \A i \in 1..Len(Held) : Held[i].length = Len(Held[i].data)

\* a document loaded from a truncated file: its IEND chunk has a zero-filled payload
C7_Witness ==
    /\ result = "Ok" /\ phase = 1
    /\ input.cut >= 5 /\ input.plen >= 1
    /\ Len(chunks) >= 1
    /\ chunks[Len(chunks)].length >= 1

\* where the i-th chunk of the written file starts (0-based offset)
RECURSIVE Offset(_, _)
Offset(cs, i) == IF i <= 1 THEN 8 ELSE Offset(cs, i - 1) + 12 + cs[i - 1].length

\* C8: a successful write leaves in the file exactly: the signature, then the header
\* chunk, the time chunk when there is one, and the chunk list in order, each as
\* big-endian length, tag, payload, checksum; the file ends with the IEND chunk and
\* has 8 + sum(12 + length) bytes.
C8_WriteLayout ==
    (pc = "written" /\ write_result = "Ok") =>
        LET n == Len(Held)
            last == Held[n]
        IN  /\ SubSeq(out, 1, 8) = <<137, 80, 78, 71, 13, 10, 26, 10>>
            /\ Len(out) = Offset(Held, n + 1)
            /\ \A i \in 1..n :
                  LET o == Offset(Held, i)
                      c == Held[i]
                  IN  /\ o + 12 + c.length <= Len(out)
                      /\ out[o + 1] * 16777216 + out[o + 2] * 65536
                           + out[o + 3] * 256 + out[o + 4] = c.length
                      /\ SubSeq(out, o + 5, o + 8) = c.chunk_type
                      /\ SubSeq(out, o + 9, o + 8 + c.length) = c.data
                      /\ SubSeq(out, o + 9 + c.length, o + 12 + c.length) = c.crc
            /\ SubSeq(out, Len(out) - last.length - 7, Len(out) - last.length - 4)
                 = <<73, 69, 78, 68>>

C8_Witness ==
    /\ pc = "written" /\ write_result = "Ok"
    /\ time_chunk # <<>>
    /\ Len(chunks) >= 1
    /\ ihdr_chunk[1].length >= 1
    /\ Len(out) = 8 + 3 * (12 + ihdr_chunk[1].length)

(***************************************************************************)
(* Properties of the decoders, checked under SpecDecode.                   *)
(***************************************************************************)
\* the failure kind each panic of from_chunk stands for
KindOf(msg) ==
    CASE msg = "Width and height must be non-zero numbers." -> "InvalidDimensions"
      [] msg = "Invalid bit depth specified. Valid values are 1, 2, 4, 8, and 16."
            -> "InvalidBitDepth"
      [] msg = "Invalid color type specified. Valid values are 0, 2, 3, 4, and 6."
            -> "InvalidColorType"
      [] msg = "Invalid bit depth specified for color type. Valid values are 8 and 16."
            -> "IncompatibleBitDepthForColorType"
      [] msg = "Invalid bit depth specified for color type. Valid values are 1, 2, 4, and 8."
            -> "IncompatibleBitDepthForColorType"
      [] msg = "Unsupported compression method specified. The only valid value is 0."
            -> "UnsupportedCompressionMethod"
      [] msg = "Unsupported filter method specified. The only valid value is 0."
            -> "UnsupportedFilterMethod"
      [] msg = "Unsupported interlace method specified. Valid values are 0 and 1."
            -> "UnsupportedInterlaceMethod"
      [] OTHER -> "other"

RuleKinds ==
    <<"InvalidDimensions", "InvalidBitDepth", "InvalidColorType",
      "IncompatibleBitDepthForColorType", "UnsupportedCompressionMethod",
      "UnsupportedFilterMethod", "UnsupportedInterlaceMethod">>

\* C5: from_chunk on an IHDR chunk with a 13-byte payload returns the decoded fields
\* exactly when the seven rules hold, and otherwise stops at the first violated rule,
\* in the order dimensions, bit depth, colour type, depth for colour type, compression,
\* filter, interlace (the code reports the rule by the panic it raises).
C5_HeaderDecode ==
    (ihdr_data.called /\ ihdr_data.arg[1].chunk_type = IHDR
        /\ Len(ihdr_data.arg[1].data) = 13) =>
        LET d == ihdr_data.arg[1].data
            w == d[1] * 16777216 + d[2] * 65536 + d[3] * 256 + d[4]
            h == d[5] * 16777216 + d[6] * 65536 + d[7] * 256 + d[8]
            rules == <<w # 0 /\ h # 0,
                       d[9] \in {1, 2, 4, 8, 16},
                       d[10] \in {0, 2, 3, 4, 6},
                       (d[10] \in {2, 4, 6} => d[9] \in {8, 16}) /\ (d[10] = 3 => d[9] # 16),
                       d[11] = 0,
                       d[12] = 0,
                       d[13] <= 1>>
        IN  IF \A i \in 1..7 : rules[i]
            THEN /\ ihdr_data.panic = ""
                 /\ ihdr_data.value =
                       <<[width |-> w, height |-> h, bit_depth |-> d[9],
                          color_type |-> d[10], compression_method |-> d[11],
                          filter_method |-> d[12], interlace_method |-> d[13]]>>
            ELSE /\ ihdr_data.value = <<>>
                 /\ KindOf(ihdr_data.panic) =
                       RuleKinds[CHOOSE i \in 1..7 :
                                    ~rules[i] /\ \A j \in 1..(i - 1) : rules[j]]

\* width = 0 together with bit depth 3 reports the dimensions
C5_Witness ==
    /\ ihdr_data.called
    /\ Len(ihdr_data.arg[1].data) = 13
    /\ SubSeq(ihdr_data.arg[1].data, 1, 4) = <<0, 0, 0, 0>>
    /\ ihdr_data.arg[1].data[9] = 3
    /\ KindOf(ihdr_data.panic) = "InvalidDimensions"

\* C6: get_last_modified returns None when the document has no time chunk and, on a
\* time chunk of at least 7 payload bytes, always returns year = 256 * byte0 + byte1
\* and bytes 2..6 as month, day, hour, minute, second, whatever their values.
C6_TimestampDecode ==
    last_modified.called =>
        /\ time_chunk = <<>> => (last_modified.panic = "" /\ last_modified.value = <<>>)
        /\ (time_chunk # <<>> /\ Len(time_chunk[1].data) >= 7) =>
              LET d == time_chunk[1].data
              IN  /\ last_modified.panic = ""
                  /\ last_modified.value =
                        <<[year |-> 256 * d[1] + d[2], month |-> d[3], day |-> d[4],
                           hour |-> d[5], minute |-> d[6], second |-> d[7]]>>

\* year 2021 with month 255 and hour 24 is returned as it stands
C6_Witness ==
    /\ last_modified.called
    /\ last_modified.value # <<>>
    /\ last_modified.value[1].year = 2021
    /\ last_modified.value[1].month = 255
    /\ last_modified.value[1].hour = 24

\* C9: no call of from_chunk or get_last_modified aborts the process: each returns a
\* value or a typed failure.
C9_NoAbort ==
    /\ pc # "panic"
    /\ ihdr_data.panic = ""
    /\ last_modified.panic = ""

(***************************************************************************)
(* Properties of the crate root's PNGFile, checked under SpecLib.          *)
(***************************************************************************)
\* C10: write of lib.rs puts the signature, then the IHDR chunk, then the chunk list
\* in the file, and from_file on that file returns Ok with the same IHDR chunk and
\* the same chunk list.
C10_LibRoundTrip ==
    /\ (pc = "written" /\ write_result = "Ok") =>
          /\ SubSeq(out, 1, 8) = <<137, 80, 78, 71, 13, 10, 26, 10>>
          /\ SubSeq(out, 13, 16) = <<73, 72, 68, 82>>
          /\ Len(out) = Offset(ihdr_chunk \o chunks, Len(chunks) + 2)
    /\ phase = 2 =>
          /\ pc # "panic"
          /\ (pc = "returned" /\ result # "io::Error") =>
                /\ result = "Ok"
                /\ Document(ihdr_chunk[1], time_chunk, chunks) = doc0[1]

(***************************************************************************)
(* Properties of the chunk loop of png.rs.                                 *)
(***************************************************************************)
\* C11: the chunk loop never keeps iterating once the source has no more bytes: an
\* iteration that starts at the end of the file ends from_file with an error, and
\* appends nothing.
C11_LoopEnds ==
    (phase = 1 /\ spin > 0) =>
        /\ pc = "returned"
        /\ result \notin {"none", "Ok"}
        /\ \A i \in 1..Len(chunks) : chunks[i].chunk_type # <<0, 0, 0, 0>>

\* the k-th chunk of the input file, as its bytes spell it
InputChunk(k) ==
    PNGChunk(input.plen, input.tags[k], PayloadOf(input.plen), CrcOf(input.tags[k], k))

\* the place of the first IEND of the input
FirstIend == CHOOSE k \in 1..Len(input.tags) :
                 input.tags[k] = IEND /\ \A j \in 1..(k - 1) : input.tags[j] # IEND

\* the places up to the first IEND that carry tag t
Places(t) == {j \in 1..FirstIend : input.tags[j] = t}

Last(S) == CHOOSE j \in S : \A i \in S : i <= j

\* C12: of several IHDR chunks (several tIME chunks) before the first IEND, wherever
\* they stand, the returned document has the last one as its header chunk (time
\* chunk); the earlier ones are nowhere in the document and none is in the chunk list.
C12_LastOneWins ==
    (phase = 1 /\ result = "Ok") =>
        /\ ihdr_chunk = <<InputChunk(Last(Places(IHDR)))>>
        /\ time_chunk = IF Places(tIME) = {} THEN <<>>
                        ELSE <<InputChunk(Last(Places(tIME)))>>
        /\ \A j \in Places(IHDR) \cup Places(tIME) :
              /\ \A i \in 1..Len(chunks) : chunks[i] # InputChunk(j)
              /\ (j # Last(Places(input.tags[j]))) =>
                    \A i \in 1..Len(Held) : Held[i] # InputChunk(j)

\* IHDR, tIME, IHDR, tIME, IEND: the second IHDR and the second tIME are kept
C12_Witness ==
    /\ phase = 1 /\ result = "Ok"
    /\ Places(IHDR) = {1, 3}
    /\ Places(tIME) = {2, 4}
    /\ ihdr_chunk = <<InputChunk(3)>>
    /\ time_chunk = <<InputChunk(4)>>

\* the chunks among the first m of the input that are neither IHDR nor tIME, in order
RECURSIVE Passed(_)
Passed(m) ==
    IF m = 0 THEN <<>>
    ELSE IF input.tags[m] = IHDR \/ input.tags[m] = tIME THEN Passed(m - 1)
    ELSE Append(Passed(m - 1), InputChunk(m))

\* how many chunks of the input the cursor has gone past
ChunksRead == (pos - 8) \div (12 + input.plen)

\* C13: while from_file reads a file that has an IEND, whatever the four bytes of the
\* tags, it does not panic, the chunk list is exactly the chunks read so far that are
\* neither IHDR nor tIME, in order and byte for byte, and nothing after the first IEND
\* is read.
C13_PassThrough ==
    (phase = 1 /\ HasTag(input.tags, IEND) /\ pc # "from_file" /\ result # "io::Error") =>
        /\ pc # "panic"
        /\ ChunksRead <= FirstIend
        /\ chunks = Passed(ChunksRead)
====
